---- MODULE Spec2Model ----
(***************************************************************************)
(* Error taxonomy, aggregation and log writing of MerlinPlotting.          *)
(*                                                                         *)
(* The sources are Python 2 (print statement in ForwardRatePlot.py:289,    *)
(* implicit relative imports, err.message), so the model follows Python 2  *)
(* semantics: list comprehensions rebind their loop variables in the       *)
(* enclosing function, `/` on integers is floor division, objects without  *)
(* comparison methods order by class name, and dict key order is arbitrary.*)
(*                                                                         *)
(* Several specifications share the variables:                             *)
(*   SpecContainer   two ExceptionContainerType objects under Add / Merge  *)
(*   SpecShape       the same objects under construction, list Merge and   *)
(*                   entries that are neither a string nor a pair          *)
(*   SpecAgg         two ExceptionAggregator objects under Add / Merge     *)
(*   SpecLog         successive runs: Add, then GenerateLogFile on a       *)
(*                   file system                                           *)
(*   SpecMain        main(): ParseArgs, GetContents, Execute and the       *)
(*                   except clauses                                        *)
(*   SpecChunk       the console message split into buffer-sized pieces    *)
(*   SpecPlot        GenerateAllPlotImages over the loaded plots           *)
(***************************************************************************)
EXTENDS Integers, Sequences, FiniteSets, TLC

VARIABLES
    A, B,          \* two container exception objects (SpecContainer)
    exc,           \* class name of the exception the last call raised, or "None"
    agg, other,    \* ExceptionAggregator.__ExceptDict of two aggregators
    cwd,           \* os.getcwd() as path tokens
    fs,            \* file system: existing file path -> file
    dirs,          \* file system: existing folders
    phase,         \* "run" while collaborators Add, "drained" after GenerateLogFile
    run,           \* number of the current run (also the records' TimeStamp)
    last,          \* the last call: its name, arguments and the receiver before it
    console,       \* what main has printed to stdout (SpecMain)
    message,       \* the message LogFile formats (SpecChunk)
    plots          \* MerlinPlotter.__AllPlots, in the order of keys() (SpecPlot)

vars == <<A, B, exc, agg, other, cwd, fs, dirs, phase, run, last, console, message, plots>>

---------------------------------------------------------------------------
(* Bounds *)

MaxTime == 2       \* TimeStamps range over 1..MaxTime
MaxRuns == 2       \* successive program runs on the same file system
MaxEntries == 3    \* Merge is not called on a list that has grown to this length

---------------------------------------------------------------------------
(* Strings and entries.  A container entry is a str or a (Key, Value) tuple;
   `tag` is the Python type of the entry. *)

Names == {"a", "b"}
Values == {"x", "y"}

Range(s) == {s[i] : i \in DOMAIN s}

\* str < str, for the strings the model uses
StrRank(s) ==
    CASE s = "" -> 0
      [] s = "--bad" -> 1
      [] s = "--t1" -> 2
      [] s = "--tpath" -> 3
      [] s = "T-1 a" -> 4
      [] s = "T-1 b" -> 5
      [] s = "ValueDate" -> 6
      [] s = "a" -> 7
      [] s = "b" -> 8
      [] s = "c" -> 9
      [] s = "extra" -> 10
      [] s = "p" -> 11
      [] s = "q" -> 12
      [] s = "x" -> 13
      [] s = "y" -> 14

Str(s) == [tag |-> "str", first |-> s, second |-> ""]
Tuple(k, v) == [tag |-> "tuple", first |-> k, second |-> v]

\* an object that is neither a str nor a tuple (None, a number, an exception object)
Other == [tag |-> "other", first |-> "", second |-> ""]

StrEntries == {Str(s) : s \in Names \cup {""}}
TupleEntries == {Tuple(k, v) : k \in Names, v \in Values}

\* Python 2 ordering of entries: str before tuple (type name), strings
\* lexicographic, tuples lexicographic on (first, second)
EntryLt(x, y) ==
    IF x.tag # y.tag THEN x.tag = "str"
    ELSE IF x.first # y.first THEN StrRank(x.first) < StrRank(y.first)
    ELSE StrRank(x.second) < StrRank(y.second)

\* a list that adds at its end
SortedListAdd_Append(list, value) == Append(list, value)

\* SortedList.add(value): insert after every element that is <= value
SortedListAdd(list, value) ==
    LET k == Cardinality({i \in DOMAIN list : ~EntryLt(value, list[i])})
    IN SubSeq(list, 1, k) \o <<value>> \o SubSeq(list, k + 1, Len(list))

IsSorted(list) == \A i \in 1..(Len(list) - 1) : ~EntryLt(list[i + 1], list[i])

---------------------------------------------------------------------------
(* Exception classes *)

FatalClasses == {"CommandLineErrors", "ConfigFilesMissing"}
NonFatalClasses == {"FailedToGeneratePNGS", "FailedToGeneratePDF", "MerlinCurvesMissing",
                    "NoPlotsLoaded", "OutlookFailed", "LogFileFailed"}
ContainerClasses == {"CommandLineErrors", "ConfigFilesMissing", "FailedToGeneratePNGS",
                     "MerlinCurvesMissing", "NoPlotsLoaded"}

\* An exception object.  Fields a class does not have stay empty.
NewException(cls, time) ==
    [cls |-> cls, TimeStamp |-> time, Contents |-> <<>>, InvalidArgs |-> <<>>,
     MissingConfigs |-> <<>>, Path |-> "", SpecificMessage |-> ""]

---------------------------------------------------------------------------
(* ExceptionContainerType *)

ContainerAdd_NoDedup(c, value) ==
    IF value.tag = "str" /\ value.first # ""
    THEN [c EXCEPT !.Contents = SortedListAdd(@, value)]
    ELSE IF value.tag = "tuple"
         THEN [c EXCEPT !.Contents = SortedListAdd(@, value)]
         ELSE c

\* an Add that replaces the stored pair of an equal Key
ContainerAdd_LastWins(c, value) ==
    IF value.tag = "str" /\ value.first # "" /\ value \notin Range(c.Contents)
    THEN [c EXCEPT !.Contents = SortedListAdd(@, value)]
    ELSE IF value.tag = "tuple"
         THEN [c EXCEPT !.Contents =
                  SortedListAdd(SelectSeq(@, LAMBDA e : e.first # value.first), value)]
         ELSE c

\* an Add that stores every pair, whatever Keys are present
ContainerAdd_PairAlways(c, value) ==
    IF value.tag = "str" /\ value.first # "" /\ value \notin Range(c.Contents)
    THEN [c EXCEPT !.Contents = SortedListAdd(@, value)]
    ELSE IF value.tag = "tuple" /\ value \notin Range(c.Contents)
         THEN [c EXCEPT !.Contents = SortedListAdd(@, value)]
         ELSE c

\* ExceptionContainerType.Add
ContainerAdd(c, value) ==
    IF value.tag = "str" /\ value.first # "" /\ value \notin Range(c.Contents)
    THEN [c EXCEPT !.Contents = SortedListAdd(@, value)]
    ELSE IF value.tag = "tuple" /\ value.first \notin {e.first : e \in Range(c.Contents)}
         THEN [c EXCEPT !.Contents = SortedListAdd(@, value)]
         ELSE c

\* a loop that stops after the first item
AddAll_HeadOnly(c, items) ==
    IF items = <<>> THEN c ELSE ContainerAdd(c, Head(items))

\* the loop `for item in container: self.Add(item)`
RECURSIVE AddAll(_, _)
AddAll(c, items) ==
    IF items = <<>> THEN c ELSE AddAll(ContainerAdd(c, Head(items)), Tail(items))

\* a Merge that always takes the argument's time stamp
BaseMerge_TakeTheirs(c, container) ==
    AddAll([c EXCEPT !.TimeStamp = container.TimeStamp], container.Contents)

\* ExceptionContainerType.Merge with an ExceptionContainerType argument
BaseMerge(c, container) ==
    AddAll([c EXCEPT !.TimeStamp = IF container.TimeStamp < c.TimeStamp
                                   THEN container.TimeStamp ELSE c.TimeStamp],
           container.Contents)

\* ExceptionContainerType.TypesMatch(obj, derivedType) for an exception object obj
TypesMatch(obj, derivedType) == obj.cls = derivedType

\* ConfigFilesMissing.__MergeMissingConfigs.  The list comprehension
\* [name for name, path in self.__MissingConfigs] rebinds name and path (Python 2),
\* so the tuple added is the last one the comprehension visited.
RECURSIVE MergeMissingConfigs(_, _)
MergeMissingConfigs(mine, theirs) ==
    IF theirs = <<>> THEN mine
    ELSE LET item == Head(theirs)
             leaked == IF mine = <<>> THEN item ELSE mine[Len(mine)]
             next == IF item.first # "" /\ item.first \notin {e.first : e \in Range(mine)}
                     THEN SortedListAdd(mine, leaked)
                     ELSE mine
         IN MergeMissingConfigs(next, Tail(theirs))

\* a Merge that does not call TypesMatch
ContainerMerge_Unchecked(c, container) == BaseMerge(c, container)

\* <Class>.Merge(container) of the five container classes, for an exception
\* object argument; the result is the receiver afterwards (unchanged when
\* TypesMatch raises ValueError)
ContainerMerge(c, container) ==
    IF ~TypesMatch(container, c.cls) THEN c
    ELSE IF c.cls = "ConfigFilesMissing"
         THEN BaseMerge([c EXCEPT !.MissingConfigs =
                              MergeMissingConfigs(@, container.MissingConfigs)],
                        container)
         ELSE BaseMerge(c, container)

MergeRaises(c, container) ==
    IF TypesMatch(container, c.cls) THEN "None" ELSE "ValueError"

\* the entries a class's callers pass to Add
EntriesOf(cls) == IF cls = "CommandLineErrors" THEN TupleEntries ELSE StrEntries

---------------------------------------------------------------------------
(* Constructors of the container classes (callers pass no timestamp; the
   default datetime.now() is evaluated once, when the class is defined) *)

\* FailedToGeneratePNGS / MerlinCurvesMissing / NoPlotsLoaded / CommandLineErrors:
\* __init__ ends with self.Add(<title>), '' by default
NewContainer(cls, time, title) == ContainerAdd(NewException(cls, time), Str(title))

\* ConfigFilesMissing.__init__(fileName, filePath)
NewConfigFilesMissing(time, fileName, filePath) ==
    [NewException("ConfigFilesMissing", time) EXCEPT !.MissingConfigs =
        IF fileName # "" /\ filePath # "" THEN <<Tuple(fileName, filePath)>> ELSE <<>>]

\* <Class>.__init__(callingFunc, <title>, targetList = container): the base
\* __init__ calls self.Merge(targetList), the class's own Merge, before the
\* class's __init__ goes on
NewContainerFrom(cls, time, title, targetList) ==
    IF cls = "ConfigFilesMissing"
    THEN [ContainerMerge(NewException(cls, time), targetList) EXCEPT !.MissingConfigs = <<>>]
    ELSE ContainerAdd(ContainerMerge(NewException(cls, time), targetList), Str(title))

\* what that constructor raises: ValueError from TypesMatch; AttributeError
\* when ConfigFilesMissing.Merge reads self.__MissingConfigs, which __init__
\* sets only after the base __init__ has returned
ConstructRaises(cls, targetList) ==
    IF ~TypesMatch(targetList, cls) THEN "ValueError"
    ELSE IF cls = "ConfigFilesMissing"
            /\ \E e \in Range(targetList.MissingConfigs) : e.first # ""
         THEN "AttributeError"
         ELSE "None"

\* SortedList(list)
RECURSIVE Sorted(_)
Sorted(list) ==
    IF list = <<>> THEN <<>> ELSE SortedListAdd(Sorted(Tail(list)), Head(list))

\* the InvalidArgs setter, for a list argument
SetInvalidArgs(c, list) == [c EXCEPT !.InvalidArgs = Sorted(list)]

\* CommandLineErrors(callingFunc, invalidArgs = list)
NewCommandLineErrors(time, invalidArgs) ==
    SetInvalidArgs(NewContainer("CommandLineErrors", time, ""), invalidArgs)

FilePaths == {"p", "q"}

NewContainers(cls, time) ==
    IF cls = "ConfigFilesMissing"
    THEN {NewConfigFilesMissing(time, n, p) : n \in Names \cup {""}, p \in FilePaths}
    ELSE IF cls = "CommandLineErrors"
         THEN {NewCommandLineErrors(time, list) : list \in {<<>>, <<Str("--bad")>>}}
         ELSE {NewContainer(cls, time, n) : n \in Names \cup {""}}

---------------------------------------------------------------------------
(* SpecContainer: two container objects, Add and Merge in any order *)

NoCall == [op |-> "None", target |-> "None", value |-> Str(""), items |-> <<>>,
           before |-> NewException("None", 0)]

\* the container classes SpecContainer instantiates: one of str entries, one
\* of tuple entries, and the one with the auxiliary MissingConfigs list
ModelledContainers == {"MerlinCurvesMissing", "CommandLineErrors", "ConfigFilesMissing"}

\* values of the variables a specification does not use
IdleContainers == A = NewException("None", 0) /\ B = NewException("None", 0)
IdleAggregators == agg = <<>> /\ other = <<>>
IdleFiles == cwd = <<>> /\ fs = <<>> /\ dirs = {} /\ phase = "run" /\ run = 1
IdleConsole == console = <<>>
IdleMessage == message = <<>>
IdlePlots == plots = <<>>

InitContainer ==
    /\ \E ca \in ModelledContainers, cb \in ModelledContainers, ta \in 1..MaxTime, tb \in 1..MaxTime :
          /\ A \in NewContainers(ca, ta)
          /\ B \in NewContainers(cb, tb)
    /\ exc = "None"
    /\ last = NoCall
    /\ IdleAggregators
    /\ IdleFiles
    /\ IdleConsole
    /\ IdleMessage
    /\ IdlePlots

\* A.Add(value)
AddA(value) ==
    /\ A' = ContainerAdd(A, value)
    /\ exc' = "None"
    /\ last' = [op |-> "Add", target |-> "A", value |-> value, items |-> <<>>, before |-> A]
    /\ UNCHANGED <<plots, message, B, agg, other, cwd, fs, dirs, phase, run, console>>

\* B.Add(value)
AddB(value) ==
    /\ B' = ContainerAdd(B, value)
    /\ exc' = "None"
    /\ last' = [op |-> "Add", target |-> "B", value |-> value, items |-> <<>>, before |-> B]
    /\ UNCHANGED <<plots, message, A, agg, other, cwd, fs, dirs, phase, run, console>>

\* A.Merge(B)
MergeAB ==
    /\ Len(A.MissingConfigs) < MaxEntries
    /\ A' = ContainerMerge(A, B)
    /\ exc' = MergeRaises(A, B)
    /\ last' = [op |-> "Merge", target |-> "A", value |-> Str(""), items |-> <<>>, before |-> A]
    /\ UNCHANGED <<plots, message, B, agg, other, cwd, fs, dirs, phase, run, console>>

\* B.Merge(A)
MergeBA ==
    /\ Len(B.MissingConfigs) < MaxEntries
    /\ B' = ContainerMerge(B, A)
    /\ exc' = MergeRaises(B, A)
    /\ last' = [op |-> "Merge", target |-> "B", value |-> Str(""), items |-> <<>>, before |-> B]
    /\ UNCHANGED <<plots, message, A, agg, other, cwd, fs, dirs, phase, run, console>>

\* the lists handed to Merge: entries of the class and objects of other types
ListsOf(cls) ==
    {<<Other>>}
    \cup {<<v, Other>> : v \in EntriesOf(cls)}
    \cup {<<Other, v>> : v \in EntriesOf(cls)}
    \cup {<<v, w>> : v \in EntriesOf(cls), w \in EntriesOf(cls)}

\* A.Merge(list): TypesMatch accepts a list, the base Merge Adds its items
MergeListA(list) ==
    /\ A' = AddAll(A, list)
    /\ exc' = "None"
    /\ last' = [op |-> "MergeList", target |-> "A", value |-> Str(""), items |-> list,
                before |-> A]
    /\ UNCHANGED <<plots, message, B, agg, other, cwd, fs, dirs, phase, run, console>>

\* A = <Class>(callingFunc, targetList = B): A is rebound unless __init__ raises
ConstructA(cls, time) ==
    /\ exc' = ConstructRaises(cls, B)
    /\ A' = IF exc' = "None" THEN NewContainerFrom(cls, time, "", B) ELSE A
    /\ last' = [op |-> "Construct", target |-> cls, value |-> Str(""), items |-> <<>>,
                before |-> A]
    /\ UNCHANGED <<plots, message, B, agg, other, cwd, fs, dirs, phase, run, console>>

NextContainer ==
    \/ \E v \in EntriesOf(A.cls) : AddA(v)
    \/ \E v \in EntriesOf(B.cls) : AddB(v)
    \/ MergeAB
    \/ MergeBA

SpecContainer == InitContainer /\ [][NextContainer]_vars

\* SpecShape: one receiver A, handed entries and lists that hold objects of
\* other types, containers of any class, and rebuilt by the constructors
NextShape ==
    \/ \E v \in EntriesOf(A.cls) \cup {Other} : AddA(v)
    \/ MergeAB
    \/ \E list \in ListsOf(A.cls) : MergeListA(list)
    \/ \E cls \in ModelledContainers, time \in 1..MaxTime : ConstructA(cls, time)

SpecShape == InitContainer /\ [][NextShape]_vars

---------------------------------------------------------------------------
(* C1 *)

NoDuplicates(list) ==
    \A i, j \in DOMAIN list :
        i # j => \/ list[i].tag # list[j].tag
                 \/ list[i].first # list[j].first

\* C1: after any sequence of Add and Merge calls, no two entries of a
\* container's Contents share the same string value and no two pair entries
\* share the same Key; adding a string that is already present leaves one entry.
C1_UniqueEntries ==
    /\ NoDuplicates(A.Contents)
    /\ NoDuplicates(B.Contents)
    /\ (last.op = "Add" /\ last.target = "A" /\ last.value \in Range(last.before.Contents))
          => A.Contents = last.before.Contents

\* an entry already present was added again, and a merge of overlapping
\* containers has happened before
C1_Witness ==
    /\ last.op = "Add" /\ last.target = "A"
    /\ last.value \in Range(last.before.Contents)
    /\ Len(A.Contents) = 2
    /\ Range(B.Contents) \cap Range(A.Contents) # {}

---------------------------------------------------------------------------
(* Single-instance exception classes *)

\* FailedToGeneratePDF.__init__(pdfPath, callingFunc)
NewFailedToGeneratePDF(time, pdfPath) ==
    [NewException("FailedToGeneratePDF", time) EXCEPT !.Path = pdfPath]

\* OutlookFailed.__init__(callingFunc, specific)
NewOutlookFailed(time, specific) ==
    [NewException("OutlookFailed", time) EXCEPT !.SpecificMessage = specific]

\* LogFileFailed.__init__(callingFunc, logPath, specific)
NewLogFileFailed(time, logPath, specific) ==
    [NewException("LogFileFailed", time) EXCEPT !.Path = logPath, !.SpecificMessage = specific]

---------------------------------------------------------------------------
(* ExceptionAggregator.  __ExceptDict is a sequence of exception objects with
   distinct classes, in the order the classes were first inserted. *)

HasKey(dict, cls) == \E i \in DOMAIN dict : dict[i].cls = cls
IndexOf(dict, cls) == CHOOSE i \in DOMAIN dict : dict[i].cls = cls
Keys(dict) == {dict[i].cls : i \in DOMAIN dict}

\* a Python object handed to isinstance: an exception instance or a class object
Instance(exception) == [instance |-> TRUE, cls |-> exception.cls]
ClassObject(cls) == [instance |-> FALSE, cls |-> cls]

\* ExceptionAggregator.IsContainerType: isinstance(exception, ExceptionContainerType)
IsContainerType(object) == object.instance /\ object.cls \in ContainerClasses

\* an Add that stores a second record of a stored kind
AggregatorAdd_Append(dict, exception) == Append(dict, exception)

AggregatorAdd_KeepFirst(dict, exception) ==
    IF HasKey(dict, exception.cls)
    THEN IF IsContainerType(Instance(exception))
         THEN [dict EXCEPT ![IndexOf(dict, exception.cls)] = ContainerMerge(@, exception)]
         ELSE dict
    ELSE Append(dict, exception)

\* ExceptionAggregator.Add for an exception that is no aggregator
AggregatorAdd(dict, exception) ==
    IF IsContainerType(Instance(exception)) /\ ~HasKey(dict, exception.cls)
    THEN Append(dict, exception)
    ELSE IF IsContainerType(Instance(exception))
         THEN [dict EXCEPT ![IndexOf(dict, exception.cls)] = ContainerMerge(@, exception)]
         ELSE IF HasKey(dict, exception.cls)
              THEN [dict EXCEPT ![IndexOf(dict, exception.cls)] = exception]
              ELSE Append(dict, exception)

\* ExceptionAggregator.Merge, the loop over exceptionAgg.Contents.keys(): the
\* class object is handed to IsContainerType, and the else branch names the
\* undefined variable `item`
RECURSIVE MergeLoop(_, _, _)
MergeLoop(dict, exceptionAgg, keys) ==
    IF keys = <<>> THEN [dict |-> dict, exc |-> "None"]
    ELSE IF IsContainerType(ClassObject(Head(keys)))
         THEN MergeLoop(AggregatorAdd(dict, exceptionAgg[IndexOf(exceptionAgg, Head(keys))]),
                        exceptionAgg, Tail(keys))
         ELSE [dict |-> dict, exc |-> "NameError"]

\* ExceptionAggregator.Merge(exceptionAgg) for an ExceptionAggregator argument
AggregatorMerge(dict, exceptionAgg) ==
    MergeLoop(dict, exceptionAgg, [i \in DOMAIN exceptionAgg |-> exceptionAgg[i].cls])

---------------------------------------------------------------------------
(* SpecAgg: two aggregators, Add on either and Merge of the second into the
   first *)

\* the exceptions collaborators hand to Add on the first aggregator
AggRecords ==
    {NewContainer("MerlinCurvesMissing", 1, n) : n \in Names \cup {""}}
    \cup {NewConfigFilesMissing(1, n, p) : n \in Names, p \in FilePaths}
    \cup {NewFailedToGeneratePDF(1, p) : p \in FilePaths}

\* the exceptions handed to Add on the second aggregator
OtherRecords ==
    {NewContainer("MerlinCurvesMissing", 1, "b"), NewFailedToGeneratePDF(1, "q")}

NoAggCall == [op |-> "None", value |-> NewException("None", 0), before |-> <<>>]

InitAgg ==
    /\ agg = <<>>
    /\ other = <<>>
    /\ exc = "None"
    /\ last = NoAggCall
    /\ IdleContainers
    /\ IdleFiles
    /\ IdleConsole
    /\ IdleMessage
    /\ IdlePlots

\* the container lists of an aggregator stay within the bound
WithinBound(dict) == \A i \in DOMAIN dict : Len(dict[i].MissingConfigs) < MaxEntries

\* agg.Add(exception)
AggAdd(exception) ==
    /\ WithinBound(agg)
    /\ agg' = AggregatorAdd(agg, exception)
    /\ exc' = "None"
    /\ last' = [op |-> "Add", value |-> exception, before |-> agg]
    /\ UNCHANGED <<plots, message, A, B, other, cwd, fs, dirs, phase, run, console>>

\* other.Add(exception)
OtherAdd(exception) ==
    /\ other' = AggregatorAdd(other, exception)
    /\ other' # other
    /\ UNCHANGED <<plots, message, A, B, agg, exc, last, cwd, fs, dirs, phase, run, console>>

\* agg.Merge(other)
AggMerge ==
    /\ agg' = AggregatorMerge(agg, other).dict
    /\ exc' = AggregatorMerge(agg, other).exc
    /\ last' = [op |-> "Merge", value |-> NewException("None", 0), before |-> agg]
    /\ UNCHANGED <<plots, message, A, B, other, cwd, fs, dirs, phase, run, console>>

\* agg.Add(other): an ExceptionAggregator argument is delegated to Merge
AggAddAggregator ==
    /\ agg' = AggregatorMerge(agg, other).dict
    /\ exc' = AggregatorMerge(agg, other).exc
    /\ last' = [op |-> "AddAggregator", value |-> NewException("None", 0), before |-> agg]
    /\ UNCHANGED <<plots, message, A, B, other, cwd, fs, dirs, phase, run, console>>

\* ExceptionAggregator.Merge(exceptionAgg) for an argument of any type: None
\* is skipped, anything that is not an ExceptionAggregator raises ValueError
MergeObject(dict, type, contents) ==
    IF type = "NoneType" THEN [dict |-> dict, exc |-> "None"]
    ELSE IF type # "ExceptionAggregator" THEN [dict |-> dict, exc |-> "ValueError"]
    ELSE AggregatorMerge(dict, contents)

\* the Contents setter: for an ExceptionAggregator it takes the argument's
\* dict, resets __ExceptDict and hands the dict to Merge
SetContents(dict, type, contents) ==
    IF type = "NoneType" THEN [dict |-> dict, exc |-> "None"]
    ELSE IF type = "ExceptionAggregator" THEN MergeObject(<<>>, "dict", contents)
    ELSE [dict |-> dict, exc |-> "ValueError"]

\* agg.Contents = other
AggSetContents ==
    /\ agg' = SetContents(agg, "ExceptionAggregator", other).dict
    /\ exc' = SetContents(agg, "ExceptionAggregator", other).exc
    /\ last' = [op |-> "SetContents", value |-> NewException("None", 0), before |-> agg]
    /\ UNCHANGED <<plots, message, A, B, other, cwd, fs, dirs, phase, run, console>>

\* agg = ExceptionAggregator(other): __init__ sets __ExceptDict = {} and
\* assigns Contents; agg is rebound unless __init__ raises
AggConstruct ==
    /\ exc' = SetContents(<<>>, "ExceptionAggregator", other).exc
    /\ agg' = IF exc' = "None" THEN SetContents(<<>>, "ExceptionAggregator", other).dict
              ELSE agg
    /\ last' = [op |-> "Construct", value |-> NewException("None", 0), before |-> agg]
    /\ UNCHANGED <<plots, message, A, B, other, cwd, fs, dirs, phase, run, console>>

\* agg = ExceptionAggregator()
AggConstructDefault ==
    /\ exc' = SetContents(<<>>, "NoneType", <<>>).exc
    /\ agg' = SetContents(<<>>, "NoneType", <<>>).dict
    /\ last' = [op |-> "ConstructDefault", value |-> NewException("None", 0), before |-> agg]
    /\ UNCHANGED <<plots, message, A, B, other, cwd, fs, dirs, phase, run, console>>

NextAgg ==
    \/ \E e \in AggRecords : AggAdd(e)
    \/ \E e \in OtherRecords : OtherAdd(e)
    \/ AggMerge
    \/ AggAddAggregator
    \/ AggSetContents
    \/ AggConstruct
    \/ AggConstructDefault

SpecAgg == InitAgg /\ [][NextAgg]_vars

---------------------------------------------------------------------------
(* C2, C3, C4 *)

EntryKeys(list) == {e.first : e \in Range(list)}

\* `now` is the deduplicated union of `stored` and `added`
IsDedupUnion(now, stored, added) ==
    /\ NoDuplicates(now)
    /\ EntryKeys(now) = EntryKeys(stored) \cup EntryKeys(added)
    /\ Range(stored) \subseteq Range(now)

\* C2: Add-ing a container-shaped record whose kind is already stored creates
\* no second entry for the kind (ErrorCount unchanged), and the stored
\* record's sub-entries become the deduplicated union of the stored and the
\* added record's sub-entries.
C2_DedupByKind ==
    (/\ last.op = "Add"
     /\ IsContainerType(Instance(last.value))
     /\ HasKey(last.before, last.value.cls))
    => LET stored == last.before[IndexOf(last.before, last.value.cls)]
           now == agg[IndexOf(agg, last.value.cls)]
       IN /\ Len(agg) = Len(last.before)
          /\ IsDedupUnion(now.Contents, stored.Contents, last.value.Contents)
          /\ IsDedupUnion(now.MissingConfigs, stored.MissingConfigs,
                          last.value.MissingConfigs)

\* C3: Add-ing a single-instance record whose kind is already stored replaces
\* the stored record: only the added record is retrievable for the kind, the
\* number of kinds (ErrorCount) stays the same, the other kinds keep their records.
C3_LastWriteWins ==
    (/\ last.op = "Add"
     /\ ~IsContainerType(Instance(last.value))
     /\ HasKey(last.before, last.value.cls))
    => /\ Len(agg) = Len(last.before)
       /\ \A i \in DOMAIN agg :
            IF agg[i].cls = last.value.cls
            THEN agg[i] = last.value
            ELSE agg[i] = last.before[i]

\* a FailedToGeneratePDF for path q was added while one for path p was stored
C3_Witness ==
    /\ last.op = "Add"
    /\ last.value = NewFailedToGeneratePDF(1, "q")
    /\ HasKey(last.before, "FailedToGeneratePDF")
    /\ last.before[IndexOf(last.before, "FailedToGeneratePDF")].Path = "p"
    /\ Len(agg) = 2

\* C4: self.Merge(other) and self.Add(other) complete without error and apply
\* Add to every record of other: every kind of other is then stored in self,
\* container kinds hold other's sub-entries too, single-instance kinds hold
\* other's record.
C4_MergeAppliesAdd ==
    (last.op \in {"Merge", "AddAggregator"})
    => /\ exc = "None"
       /\ \A i \in DOMAIN other :
            /\ HasKey(agg, other[i].cls)
            /\ LET mine == agg[IndexOf(agg, other[i].cls)]
               IN IF IsContainerType(Instance(other[i]))
                  THEN Range(other[i].Contents) \subseteq Range(mine.Contents)
                  ELSE mine = other[i]

---------------------------------------------------------------------------
(* Paths and the file system.  A path is a sequence of tokens: the characters
   '/', '_' and '.' are tokens of their own, every other token is a run of
   characters none of which the code searches for.  fs maps the paths of the
   existing files to their contents, dirs holds the existing folders. *)

Join(s, t) == s \o t

\* 'x' in path
In(ch, path) == \E i \in DOMAIN path : path[i] = ch

\* path.rfind(ch) + 1, 0 when ch does not occur
RFind(path, ch) ==
    IF In(ch, path) THEN CHOOSE i \in DOMAIN path :
                            path[i] = ch /\ \A j \in DOMAIN path : path[j] = ch => j <= i
    ELSE 0

\* path[0 : path.rfind(ch)]  (rfind's -1 cuts the last character off)
Before(path, ch) ==
    IF In(ch, path) THEN SubSeq(path, 1, RFind(path, ch) - 1)
    ELSE SubSeq(path, 1, Len(path) - 1)

\* path[path.rfind(ch) : len(path)]
From(path, ch) ==
    IF In(ch, path) THEN SubSeq(path, RFind(path, ch), Len(path))
    ELSE SubSeq(path, Len(path), Len(path))

\* DirectoryType.CheckPath / os.path.exists
CheckPath(files, folders, path) == path \in DOMAIN files \/ path \in folders

\* DirectoryType.AppendHyphenIfNecessary
AppendHyphenIfNecessary(path) ==
    IF In(".", path) \/ ~In("/", path) THEN path
    ELSE IF path[Len(path)] # "/" THEN Join(path, <<"/">>) ELSE path

\* DirectoryType.ExtractExtension
ExtractExtension(path) == IF ~In(".", path) THEN path ELSE From(path, ".")

\* DirectoryType.ExtractFolderName
ExtractFolderName(path) ==
    IF ~In("/", path) THEN <<>> ELSE AppendHyphenIfNecessary(Before(path, "/"))

\* path[0:path.rfind('.')] + '_' + str(duplicateCounter) + path[path.rfind('.'):len(path)]
Duplicate(path, duplicateCounter) ==
    Join(Join(Before(path, "."), <<"_", ToString(duplicateCounter)>>), From(path, "."))

\* FileType.HandleDuplicates, the while loop
RECURSIVE HandleDuplicatesLoop(_, _, _, _, _)
HandleDuplicatesLoop(files, folders, path, newPath, duplicateCounter) ==
    IF CheckPath(files, folders, newPath)
    THEN HandleDuplicatesLoop(files, folders, path, Duplicate(path, duplicateCounter),
                              duplicateCounter + 1)
    ELSE newPath

\* FileType.HandleDuplicates
HandleDuplicates(files, folders, path) ==
    IF ~In(".", path) THEN path
    ELSE HandleDuplicatesLoop(files, folders, path,
            Join(Before(path, IF In("_", path) THEN "_" ELSE "."), ExtractExtension(path)),
            2)

\* FileType.GetFinalDuplicateFile, the while loop (nextPath is never reassigned)
RECURSIVE GetFinalDuplicateFileLoop(_, _, _, _, _, _)
GetFinalDuplicateFileLoop(files, folders, path, currPath, nextPath, duplicateCounter) ==
    IF CheckPath(files, folders, currPath) /\ CheckPath(files, folders, nextPath)
    THEN GetFinalDuplicateFileLoop(files, folders, path, Duplicate(path, duplicateCounter),
                                   nextPath, duplicateCounter + 1)
    ELSE currPath

\* FileType.GetFinalDuplicateFile
GetFinalDuplicateFile(files, folders, path) ==
    IF ~In(".", path) THEN path
    ELSE GetFinalDuplicateFileLoop(files, folders, path, path, Duplicate(path, 2), 2)

Million == 1000000        \* bytes per megabyte in HandleLargeFiles
DefaultSize == 10         \* HandleLargeFiles' size parameter

\* os.path.getsize
GetSize(files, path) == files[path].bytes

\* the test of HandleLargeFiles: getsize(...) / 1000000 > size, `/` being the
\* floor division of Python 2 integers
IsLarge(files, folders, outputPath, size) ==
    /\ CheckPath(files, folders, outputPath)
    /\ GetSize(files, GetFinalDuplicateFile(files, folders, outputPath)) \div Million > size

\* FileType.HandleLargeFiles
HandleLargeFiles(files, folders, path, size) ==
    IF ~In(".", path) THEN path
    ELSE LET outputPath == GetFinalDuplicateFile(files, folders, path)
         IN IF IsLarge(files, folders, outputPath, size)
            THEN HandleDuplicates(files, folders, outputPath)
            ELSE outputPath

\* LogFile.__init__: AppendHyphenIfNecessary(os.getcwd()) + 'LogFile/MerlinPlotting LogFile.txt'
DefaultPath(dir) ==
    Join(AppendHyphenIfNecessary(dir), <<"LogFile", "/", "MerlinPlotting LogFile", ".", "txt">>)

---------------------------------------------------------------------------
(* LogFile.  A line of a log file is a token: the two header lines, a row of
   an earlier run, or the n-th message row of an exception of this run (the
   row's TimeStamp column tells the runs apart).  A file is its lines and its
   size in bytes; the files present at the start stand for logs of earlier
   runs, their rows abbreviated by tokens. *)

MessageBufferLength == 105

Line(time, cls, n) == [run |-> time, cls |-> cls, n |-> n]

\* LogFile.__Headers
Headers == <<Line(0, "Header", 1), Line(0, "Header", 2)>>

\* bytes of a row ('{0:<20}{1:<110}{2:<60}{3:<20}' and the newline), of the headers
LineBytes == 20 + (MessageBufferLength + 5) + 60 + 20 + 1
HeaderBytes == LineBytes + 250 + 1

NoFile == [lines |-> <<>>, bytes |-> 0 - 1]

\* the number of non-blank lines of exception.Message(True), each of which
\* fits the message column
MessageLines(exception) ==
    CASE exception.cls = "CommandLineErrors" ->
            (IF exception.Contents = <<>> THEN 0 ELSE 1 + Len(exception.Contents))
            + (IF exception.InvalidArgs = <<>> THEN 0 ELSE 2)
      [] exception.cls = "ConfigFilesMissing" -> 1 + 2 * Len(exception.MissingConfigs)
      [] exception.cls = "MerlinCurvesMissing" -> 1
      [] exception.cls = "OutlookFailed" -> 1
      [] exception.cls = "LogFileFailed" ->
            IF exception.SpecificMessage = "" THEN 2 ELSE 3
      [] OTHER -> 2

\* LogFile.__FormattedMessages
FormattedMessages(exception) ==
    [n \in 1..MessageLines(exception) |-> Line(exception.TimeStamp, exception.cls, n)]

\* the order of two exception objects of different classes: Python 2 compares
\* objects without comparison methods by the names of their classes
ClassRank(cls) ==
    CASE cls = "CommandLineErrors" -> 1
      [] cls = "ConfigFilesMissing" -> 2
      [] cls = "FailedToGeneratePDF" -> 3
      [] cls = "FailedToGeneratePNGS" -> 4
      [] cls = "LogFileFailed" -> 5
      [] cls = "MerlinCurvesMissing" -> 6
      [] cls = "NoPlotsLoaded" -> 7
      [] cls = "OutlookFailed" -> 8

\* SortedList.add on a list of exception objects
SortedErrorsAdd(list, exception) ==
    LET k == Cardinality({i \in DOMAIN list :
                            ClassRank(list[i].cls) <= ClassRank(exception.cls)})
    IN SubSeq(list, 1, k) \o <<exception>> \o SubSeq(list, k + 1, Len(list))

\* LogFile.Append
LogFileAppend(errors, exception) ==
    IF exception.cls \in FatalClasses
    THEN [errors EXCEPT !.Fatal = SortedErrorsAdd(@, exception)]
    ELSE [errors EXCEPT !.NonFatal = SortedErrorsAdd(@, exception)]

\* GenerateLogFile: for exceptionType in self.Contents.keys(): logFile.Append(...)
RECURSIVE AppendAll(_, _)
AppendAll(errors, dict) ==
    IF dict = <<>> THEN errors
    ELSE AppendAll(LogFileAppend(errors, Head(dict)), Tail(dict))

RECURSIVE AllFormatted(_)
AllFormatted(list) ==
    IF list = <<>> THEN <<>>
    ELSE FormattedMessages(Head(list)) \o AllFormatted(Tail(list))

\* LogFile.Print: prevLines, the lines of the existing file after the first two
PrevLines_KeepHeader(lines) ==
    IF Len(lines) > 2 THEN SubSeq(lines, 2, Len(lines)) ELSE <<>>

PrevLines(lines) ==
    IF Len(lines) > 2 THEN SubSeq(lines, 3, Len(lines)) ELSE <<>>

\* LogFile.Print: allLines.  self.Errors.keys() yields the two groups in either
\* order (fatalFirst).
AllLines(errors, prevLines, fatalFirst) ==
    Headers
    \o (IF fatalFirst
        THEN AllFormatted(errors.Fatal) \o AllFormatted(errors.NonFatal)
        ELSE AllFormatted(errors.NonFatal) \o AllFormatted(errors.Fatal))
    \o prevLines

\* the file LogFile.Print leaves at its path
Printed(files, path, errors, fatalFirst) ==
    LET old == IF path \in DOMAIN files THEN files[path] ELSE NoFile
        prevLines == PrevLines(old.lines)
        rows == Len(AllFormatted(errors.Fatal)) + Len(AllFormatted(errors.NonFatal))
    IN [lines |-> AllLines(errors, prevLines, fatalFirst),
        bytes |-> IF prevLines = <<>> THEN HeaderBytes + LineBytes * rows
                  ELSE old.bytes + LineBytes * rows]

\* open(path, 'w') ... writelines: the file system afterwards
Written(files, path, file) ==
    [q \in DOMAIN files \cup {path} |-> IF q = path THEN file ELSE files[q]]

---------------------------------------------------------------------------
(* ExceptionAggregator.GenerateLogFile and the runs of the program.  A run
   collects records in a fresh aggregator (phase "run"), calls
   GenerateLogFile once (phase "drained") and ends; the next run starts on
   the file system the earlier ones left.  A fault names the one operation of
   the call that the operating system refuses. *)

\* ExceptionAggregator.HasErrors
HasErrors(dict) == Cardinality(Keys(dict)) > 0

\* noLog = (False if not isinstance(noLog, bool) else noLog)
Normalised(noLogArg) == IF noLogArg.bool THEN noLogArg.val ELSE FALSE

\* if not self.HasErrors or noLog: return
SkipLog_Both(dict, noLog) == ~HasErrors(dict) /\ noLog

SkipLog(dict, noLog) == ~HasErrors(dict) \/ noLog

\* err.message of the IOError / OSError of a refused operation: the message
\* attribute is blank for an exception built from (errno, strerror)
ErrMessage == ""

\* the except branch of GenerateLogFile
OnLogException_Reset(dict, time, logPath, specific) ==
    <<NewLogFileFailed(time, logPath, specific)>>

OnLogException(dict, time, logPath, specific) ==
    AggregatorAdd(dict, NewLogFileFailed(time, logPath, specific))

\* LogFile.__init__: the path and the folder handed to os.path.exists / os.mkdir
LogFileInit(files, folders, dir) ==
    LET filePath == HandleLargeFiles(files, folders, DefaultPath(dir), DefaultSize)
    IN [Path |-> filePath, Folder |-> ExtractFolderName(ExtractFolderName(filePath))]

Faults == {"none", "mkdir", "read", "write", "writelines"}

NoErrors == [Fatal |-> <<>>, NonFatal |-> <<>>]

\* the call from `if not self.HasErrors or noLog` on, init being what
\* LogFile.__init__ computes: the aggregator, the file system and the
\* exception that leaves the call, with the I/O performed
LogOutcome(dict, files, folders, init, time, noLog, fault, fatalFirst) ==
    LET made == folders \cup {init.Folder}
        missing == ~CheckPath(files, folders, init.Folder)
        found == CheckPath(files, made, init.Path)
        lookups == {"stat"} \cup (IF missing THEN {"mkdir"} ELSE {})
        still == [agg |-> dict, fs |-> files, dirs |-> folders, exc |-> "None",
                  io |-> {}, wrote |-> FALSE, caught |-> FALSE,
                  raised |-> NewException("None", 0)]
    IN IF SkipLog(dict, noLog) THEN still
       ELSE IF missing /\ (fault = "mkdir" \/ init.Folder = <<>>)
       THEN \* os.mkdir raises inside LogFile(...): logFile is unbound in the handler
            [still EXCEPT !.exc = "UnboundLocalError", !.io = {"stat"}]
       ELSE IF found /\ fault = "read"
       THEN [still EXCEPT !.agg = OnLogException(dict, time, init.Path, ErrMessage),
                          !.dirs = made, !.io = lookups, !.caught = TRUE]
       ELSE IF fault = "write"
       THEN \* open(path, 'w') raises: Print raises LogFileFailed, a BaseException
            [still EXCEPT !.dirs = made, !.exc = "LogFileFailed",
                          !.io = lookups \cup (IF found THEN {"read"} ELSE {}),
                          !.raised = NewLogFileFailed(time, init.Path, ErrMessage)]
       ELSE IF fault = "writelines"
       THEN \* the file is open for writing, hence empty, when writelines raises
            [still EXCEPT !.dirs = made, !.exc = "LogFileFailed",
                          !.fs = Written(files, init.Path, [lines |-> <<>>, bytes |-> 0]),
                          !.io = lookups \cup (IF found THEN {"read"} ELSE {}) \cup {"write"},
                          !.raised = NewLogFileFailed(time, init.Path, ErrMessage)]
       ELSE [still EXCEPT !.dirs = made, !.wrote = TRUE,
                          !.fs = Written(files, init.Path,
                                         Printed(files, init.Path,
                                                 AppendAll(NoErrors, dict), fatalFirst)),
                          !.io = lookups \cup (IF found THEN {"read"} ELSE {}) \cup {"write"}]

\* a fault is drawn only where the call reaches the operation it names
Reaches(dict, files, folders, init, noLog, fault) ==
    CASE fault = "none" -> TRUE
      [] fault = "mkdir" -> ~SkipLog(dict, noLog) /\ ~CheckPath(files, folders, init.Folder)
      [] fault = "read" -> ~SkipLog(dict, noLog) /\ init.Path \in DOMAIN files
      [] OTHER -> ~SkipLog(dict, noLog)

\* the working directories of the runs
Cwds == {<<"C:", "/", "u", "/", "dir">>, <<"C:", "/", "u", "/", "my", "_", "dir">>}

\* the folders above the log folder
Folders(dir) == {<<"C:", "/">>, <<"C:", "/", "u", "/">>, AppendHyphenIfNecessary(dir)}

LogFolder(dir) == ExtractFolderName(DefaultPath(dir))

\* a log file of earlier runs: under 10 MB, between 10 and 11 MB, above
EarlierLines == Headers \o <<Line(0, "Earlier", 1), Line(0, "Earlier", 2)>>
EarlierSizes == {HeaderBytes + 2 * LineBytes, 10500000, 12000000}
EarlierFiles == {[lines |-> EarlierLines, bytes |-> b] : b \in EarlierSizes}

NoFiles == [q \in {} |-> NoFile]

\* the log files a first run may find: none, the default one, or the default
\* one and its first duplicate
InitFiles(base) ==
    {NoFiles}
    \cup {Written(NoFiles, base, f) : f \in EarlierFiles}
    \cup {Written(Written(NoFiles, base, f), Duplicate(base, 2),
                  [lines |-> EarlierLines, bytes |-> HeaderBytes + 2 * LineBytes])
            : f \in EarlierFiles}

\* the records a run may raise
LogRecords(time) ==
    {NewContainer("MerlinCurvesMissing", time, "a"),
     NewFailedToGeneratePDF(time, "p"),
     NewConfigFilesMissing(time, "a", "p")}

NoLogArgs == {[bool |-> TRUE, val |-> TRUE], [bool |-> TRUE, val |-> FALSE],
              [bool |-> FALSE, val |-> TRUE]}

NoLogCall == [op |-> "None", noLog |-> FALSE, fault |-> "none", before |-> <<>>,
              path |-> <<>>, old |-> NoFile, resolved |-> <<>>, large |-> NoFile,
              io |-> {}, wrote |-> FALSE, caught |-> FALSE,
              raised |-> NewException("None", 0)]

InitLog ==
    /\ cwd \in Cwds
    /\ \/ fs = NoFiles /\ dirs = Folders(cwd)
       \/ fs \in InitFiles(DefaultPath(cwd)) /\ dirs = Folders(cwd) \cup {LogFolder(cwd)}
    /\ agg = <<>>
    /\ other = <<>>
    /\ exc = "None"
    /\ phase = "run"
    /\ run = 1
    /\ last = NoLogCall
    /\ IdleContainers
    /\ IdleConsole
    /\ IdleMessage
    /\ IdlePlots

\* agg.Add(exception) during the run
LogAdd(exception) ==
    /\ phase = "run"
    /\ agg' = AggregatorAdd(agg, exception)
    /\ agg' # agg
    /\ UNCHANGED <<plots, message, A, B, exc, other, cwd, fs, dirs, phase, run, last, console>>

\* agg.GenerateLogFile(valueDate, runTime, noLog) with a valueDate that is no date
GenerateLogFileBadDate ==
    /\ phase = "run"
    /\ phase' = "drained"
    /\ exc' = "ValueError"
    /\ last' = [NoLogCall EXCEPT !.op = "GenerateLogFile", !.before = agg]
    /\ UNCHANGED <<plots, message, A, B, agg, other, cwd, fs, dirs, run, console>>

\* agg.GenerateLogFile(valueDate, runTime, noLog)
GenerateLogFile ==
    /\ phase = "run"
    /\ \E init \in {LogFileInit(fs, dirs, cwd)},
          resolved \in {GetFinalDuplicateFile(fs, dirs, DefaultPath(cwd))},
          noLogArg \in NoLogArgs, fault \in Faults, fatalFirst \in BOOLEAN :
        /\ Reaches(agg, fs, dirs, init, Normalised(noLogArg), fault)
        /\ \E out \in {LogOutcome(agg, fs, dirs, init, run, Normalised(noLogArg),
                                  fault, fatalFirst)} :
            /\ fatalFirst \/ (out.wrote /\ \E i, j \in DOMAIN agg :
                                agg[i].cls \in FatalClasses /\ agg[j].cls \in NonFatalClasses)
            /\ agg' = out.agg
            /\ fs' = out.fs
            /\ dirs' = out.dirs
            /\ exc' = out.exc
            /\ last' = [op |-> "GenerateLogFile",
                        noLog |-> noLogArg = [bool |-> TRUE, val |-> TRUE],
                        fault |-> fault, before |-> agg,
                        path |-> init.Path,
                        old |-> IF init.Path \in DOMAIN fs THEN fs[init.Path] ELSE NoFile,
                        resolved |-> resolved,
                        large |-> IF resolved \in DOMAIN fs THEN fs[resolved] ELSE NoFile,
                        io |-> out.io, wrote |-> out.wrote, caught |-> out.caught,
                        raised |-> out.raised]
    /\ phase' = "drained"
    /\ UNCHANGED <<plots, message, A, B, other, cwd, run, console>>

\* `if self.ErrorCount == 0: return` of LogFile.Print: ErrorCount is a method
\* and is not called, so the bound method object is compared with 0 and the
\* test is false whatever has been appended
ErrorCountIsZero(errors) == FALSE

\* LogFile.Print without a refused operation: the file system afterwards
LogFilePrint(files, path, errors, fatalFirst) ==
    IF ErrorCountIsZero(errors) THEN files
    ELSE Written(files, path, Printed(files, path, errors, fatalFirst))

\* LogFile(valueDate, runTime).Print(): a log file nothing was appended to
PrintEmptyLogFile ==
    /\ phase = "run"
    /\ \E init \in {LogFileInit(fs, dirs, cwd)} :
        /\ init.Folder # <<>>
        /\ dirs' = dirs \cup {init.Folder}
        /\ fs' = LogFilePrint(fs, init.Path, NoErrors, TRUE)
        /\ last' = [NoLogCall EXCEPT !.op = "Print", !.before = agg, !.path = init.Path,
                                     !.old = IF init.Path \in DOMAIN fs THEN fs[init.Path]
                                             ELSE NoFile,
                                     !.wrote = (fs' # fs)]
    /\ exc' = "None"
    /\ phase' = "drained"
    /\ UNCHANGED <<plots, message, A, B, agg, other, cwd, run, console>>

\* the program ends and is started again
NewRun ==
    /\ phase = "drained"
    /\ run < MaxRuns
    /\ phase' = "run"
    /\ run' = run + 1
    /\ agg' = <<>>
    /\ exc' = "None"
    /\ last' = NoLogCall
    /\ UNCHANGED <<plots, message, A, B, other, cwd, fs, dirs, console>>

NextLog ==
    \/ \E exception \in LogRecords(run) : LogAdd(exception)
    \/ GenerateLogFileBadDate
    \/ GenerateLogFile
    \/ PrintEmptyLogFile
    \/ NewRun

SpecLog == InitLog /\ [][NextLog]_vars

---------------------------------------------------------------------------
(* Claims about GenerateLogFile, checked under SpecLog.  last describes the
   call that drained the aggregator of the current run. *)

Called == last.op = "GenerateLogFile"

C6_FailureSurfaces ==
    (Called /\ last.fault # "none") =>
        /\ exc = "LogFileFailed"
        /\ last.raised.cls = "LogFileFailed"
        /\ last.raised.Path = last.path
        /\ last.raised.SpecificMessage # ""

\* the lines of a file after the two header lines
Body(lines) == SubSeq(lines, 3, Len(lines))

\* C7: a write to an existing log file leaves the two header lines once, then
\* the rows of this run, then the earlier body in its order; no file ever
\* holds a header line below its second line.
C7_HistoryPreserved ==
    /\ (Called /\ last.wrote /\ last.old # NoFile) =>
          LET new == fs[last.path].lines
              k == Len(AllFormatted(last.before))
          IN /\ Len(new) = 2 + k + Len(Body(last.old.lines))
             /\ SubSeq(new, 1, 2) = Headers
             /\ \A i \in 3..(2 + k) : new[i].run = run /\ new[i].cls # "Header"
             /\ SubSeq(new, 3 + k, Len(new)) = Body(last.old.lines)
    /\ \A q \in DOMAIN fs : \A i \in DOMAIN fs[q].lines :
          fs[q].lines[i].cls = "Header" => i <= 2 /\ fs[q].lines[i] = Headers[i]

C7_Witness ==
    /\ Called
    /\ last.wrote
    /\ run = 2
    /\ Len(last.before) >= 2
    /\ \E i, j, k \in DOMAIN fs[last.path].lines :
          /\ i < j /\ j < k
          /\ fs[last.path].lines[i].run = 2
          /\ fs[last.path].lines[j].run = 1
          /\ fs[last.path].lines[k].cls = "Earlier"

IsFatal(exception) == exception.cls \in FatalClasses
IsNonFatal(exception) == exception.cls \in NonFatalClasses

\* C8: after a successful GenerateLogFile every stored record has at least
\* one row, the rows of the Fatal records come before those of the NonFatal
\* records, and within each group the records are in insertion order.
C8_RowOrder ==
    (Called /\ last.wrote) =>
        /\ \A i \in DOMAIN last.before : MessageLines(last.before[i]) >= 1
        /\ SubSeq(fs[last.path].lines, 3, 2 + Len(AllFormatted(last.before)))
             = AllFormatted(SelectSeq(last.before, IsFatal))
               \o AllFormatted(SelectSeq(last.before, IsNonFatal))

\* C9: GenerateLogFile performs no file-system I/O, and leaves files and
\* folders as they are, when the aggregator is empty or noLog is True.
C9_NoIOWhenSkipped ==
    [][(phase = "run" /\ last'.op = "GenerateLogFile" /\ (agg = <<>> \/ last'.noLog))
          => (fs' = fs /\ dirs' = dirs /\ last'.io = {})]_vars

C9_Witness ==
    /\ Called
    /\ last.noLog
    /\ Len(last.before) >= 2
    /\ DefaultPath(cwd) \in DOMAIN fs
    /\ last.io = {}

\* C10: when the resolved log file exists and exceeds the size threshold, the
\* log is written to a different path, the default one with _N (N >= 2)
\* before the extension, and the over-threshold file stays as it was.
C10_Rotation ==
    (Called /\ last.io # {} /\ last.large # NoFile
        /\ last.large.bytes > DefaultSize * Million) =>
        /\ last.path # last.resolved
        /\ \E n \in 2..(Cardinality(DOMAIN fs) + 2) :
              last.path = Duplicate(DefaultPath(cwd), n)
        /\ fs[last.resolved] = last.large

\* the n-th path of the sequence base, base_2, base_3, ...
Candidate(base, n) == IF n = 1 THEN base ELSE Duplicate(base, n)

\* a file that is absent, or present and not above the threshold
Fits(files, path) ==
    path \notin DOMAIN files \/ files[path].bytes <= DefaultSize * Million

\* C11: the log path chosen is the first of base, base_2, base_3, ... whose
\* file does not already exceed the size threshold; an existing duplicate
\* under the threshold is selected rather than a further new file.
C11_FirstFittingPath ==
    [][(phase = "run" /\ phase' = "drained" /\ last'.io # {})
          => \E n \in 1..(Cardinality(DOMAIN fs) + 1) :
                /\ last'.path = Candidate(DefaultPath(cwd), n)
                /\ Fits(fs, Candidate(DefaultPath(cwd), n))
                /\ \A m \in 1..(n - 1) : ~Fits(fs, Candidate(DefaultPath(cwd), m))]_vars

---------------------------------------------------------------------------
(* ExceptionAggregator.StdoutMessage, ErrorCount and HasErrors, checked under
   SpecAgg. *)

\* ErrorCount() of a stored record: len(self.Contents), for ConfigFilesMissing
\* len(self.MissingConfigs) + len(self.Contents)
ContainerErrorCount(exception) ==
    IF exception.cls = "ConfigFilesMissing"
    THEN Len(exception.MissingConfigs) + Len(exception.Contents)
    ELSE Len(exception.Contents)

\* exception.Message(False): the concise text of the class, with the count
\* of a container's errors filled in
ConciseMessage(exception) ==
    [cls |-> exception.cls,
     count |-> IF exception.cls \in ContainerClasses
               THEN ContainerErrorCount(exception) ELSE 0]

\* the orders in which self.Contents.keys() can list a dict keyed by class
\* objects: a Python 2 dict lists its keys by hash slot, and a class object
\* hashes by its address
KeyOrders(dict) ==
    {order \in [DOMAIN dict -> DOMAIN dict] :
        \A i, j \in DOMAIN dict : order[i] = order[j] => i = j}

\* ExceptionAggregator.StdoutMessage: the lines of the message, for every
\* order of the keys
StdoutMessage(dict) ==
    IF ~HasErrors(dict) THEN {<<>>}
    ELSE {[i \in DOMAIN dict |-> ConciseMessage(dict[order[i]])] : order \in KeyOrders(dict)}

\* self.Contents.keys(), one item for each stored record
KeyList(dict) == [i \in DOMAIN dict |-> dict[i].cls]

\* ExceptionAggregator.ErrorCount
ErrorCount(dict) == Len(KeyList(dict))

\* C12: StdoutMessage lists the concise message of every stored kind, one per
\* line, in the order in which the kinds were first inserted.
C12_InsertionOrder ==
    \A outmessage \in StdoutMessage(agg) :
        outmessage = [i \in DOMAIN agg |-> ConciseMessage(agg[i])]

\* C13: ErrorCount is the number of distinct kinds stored, with at most one
\* record per kind whatever the number of its sub-items, and HasErrors is
\* true iff that number is greater than zero.
C13_CountsKinds ==
    /\ ErrorCount(agg) = Cardinality({agg[i].cls : i \in DOMAIN agg})
    /\ \A i, j \in DOMAIN agg : agg[i].cls = agg[j].cls => i = j
    /\ HasErrors(agg) <=> ErrorCount(agg) > 0

C13_Witness ==
    /\ ErrorCount(agg) = 2
    /\ \E i \in DOMAIN agg : Len(agg[i].Contents) >= 2
    /\ last.op = "Add"
    /\ Len(last.before) = 2

---------------------------------------------------------------------------
(* Claims about ExceptionContainerType.Merge and Add, checked under
   SpecContainer.  The entries of a container are its Contents list. *)

\* the step is a completed A.Merge(B) of two containers of one kind
MergedIntoA == last'.op = "Merge" /\ last'.target = "A" /\ A.cls = B.cls

FirstsOf(list) == {e.first : e \in Range(list)}

\* C14 (as stated): A.Merge(B) for two containers of the same kind leaves A's
\* entry set equal to the set union of A's and B's entries before the call,
\* and leaves B's entries unchanged.
C14_MergeUnion ==
    [][MergedIntoA =>
          /\ Range(A'.Contents) = Range(A.Contents) \cup Range(B.Contents)
          /\ B'.Contents = B.Contents]_vars

\* C14 (amended): A.Merge(B) leaves A's entries equal to A's entries before
\* the call together with those entries of B whose string, or whose Key, A
\* did not hold; a pair of B whose Key A holds with another Value is not
\* taken over.  B is unchanged.
C14_MergeKeepsOwnKeys ==
    [][MergedIntoA =>
          /\ Range(A'.Contents) =
                Range(A.Contents)
                \cup {e \in Range(B.Contents) : e.first \notin FirstsOf(A.Contents)}
          /\ B' = B]_vars

\* a pair of B was taken over and another one, of a Key A held, was not
C14_Witness ==
    /\ last.op = "Merge"
    /\ last.target = "A"
    /\ A.cls = "CommandLineErrors"
    /\ B.cls = "CommandLineErrors"
    /\ Len(A.Contents) > Len(last.before.Contents)
    /\ \E e \in Range(B.Contents) : e \notin Range(A.Contents)
    /\ last.before.Contents # <<>>

\* a Key that the two containers hold with different Values
Conflict(x, y) ==
    \E e \in Range(x.Contents), f \in Range(y.Contents) : e.first = f.first /\ e # f

\* C15 (as stated): Merge is idempotent and order-independent: A.Merge(B)
\* twice gives the entries of A.Merge(B) once, and the entries of A after
\* A.Merge(B) equal those of B after B.Merge(A), pairs of equal Key and
\* different Value included.
C15_IdempotentCommutative ==
    A.cls = B.cls =>
        /\ ContainerMerge(ContainerMerge(A, B), B).Contents = ContainerMerge(A, B).Contents
        /\ ContainerMerge(A, B).Contents = ContainerMerge(B, A).Contents

\* C15 (amended): Merge is idempotent; the entries of A after A.Merge(B)
\* equal those of B after B.Merge(A) when no Key is held by A and B with
\* different Values, and otherwise each receiver keeps its own pair of every
\* such Key, so the two results differ.
C15_IdempotentOwnKeysWin ==
    A.cls = B.cls =>
        /\ ContainerMerge(ContainerMerge(A, B), B).Contents = ContainerMerge(A, B).Contents
        /\ ~Conflict(A, B) => ContainerMerge(A, B).Contents = ContainerMerge(B, A).Contents
        /\ Conflict(A, B) =>
              /\ ContainerMerge(A, B).Contents # ContainerMerge(B, A).Contents
              /\ Range(A.Contents) \subseteq Range(ContainerMerge(A, B).Contents)
              /\ Range(B.Contents) \subseteq Range(ContainerMerge(B, A).Contents)

\* A.Merge(B) was made twice in a row on containers with a Key in conflict
\* and an entry to take over
C15_Witness ==
    /\ last.op = "Merge"
    /\ last.target = "A"
    /\ A.cls = B.cls
    /\ Conflict(A, B)
    /\ last.before = A
    /\ Len(A.Contents) >= 2
    /\ Len(B.Contents) >= 2

\* C16: after A.Merge(B) A's TimeStamp is the smaller of A's and B's before
\* the call, and no step ever raises the TimeStamp of a container.
C16_TimestampMin ==
    [][/\ MergedIntoA =>
             /\ A'.TimeStamp <= A.TimeStamp
             /\ A'.TimeStamp <= B.TimeStamp
             /\ A'.TimeStamp \in {A.TimeStamp, B.TimeStamp}
       /\ A'.TimeStamp <= A.TimeStamp
       /\ B'.TimeStamp <= B.TimeStamp]_vars

\* a Merge lowered the TimeStamp of A to that of B
C16_Witness ==
    /\ last.op = "Merge"
    /\ last.target = "A"
    /\ A.cls = B.cls
    /\ last.before.TimeStamp > B.TimeStamp
    /\ A.TimeStamp = B.TimeStamp

\* C17: Add((k, v2)) to a container that holds (k, v1), v1 # v2, leaves the
\* container as it was: (k, v1) is kept and (k, v2) is discarded; likewise a
\* Merge of missing-config pairs whose names are all held adds nothing.
C17_FirstPairKept ==
    /\ (/\ last.op = "Add"
        /\ last.target = "A"
        /\ last.value.tag = "tuple"
        /\ \E e \in Range(last.before.Contents) :
              e.first = last.value.first /\ e.second # last.value.second)
          => A = last.before
    /\ (/\ last.op = "Merge"
        /\ last.target = "A"
        /\ A.cls = "ConfigFilesMissing"
        /\ B.cls = "ConfigFilesMissing"
        /\ FirstsOf(B.MissingConfigs) \subseteq FirstsOf(last.before.MissingConfigs))
          => A.MissingConfigs = last.before.MissingConfigs

C17_Witness ==
    /\ last.op = "Add"
    /\ last.target = "A"
    /\ last.value.tag = "tuple"
    /\ \E e \in Range(last.before.Contents) :
          e.first = last.value.first /\ e.second # last.value.second
    /\ Len(A.Contents) = 2

---------------------------------------------------------------------------
(* SpecMain: main().  phase is the statement main is at; exc is the exception
   travelling towards, or out of, main's except clauses; A is the Fatal
   container being filled or handled, agg the plotter's aggregator. *)

\* ExceptionContainerType.HasErrors
ContainerHasErrors(c) == Len(c.Contents) > 0

\* HasErrors without the InvalidArgs list
CommandLineHasErrors_ContainerOnly(c) == Len(c.Contents) > 0

\* CommandLineErrors.HasErrors
CommandLineHasErrors(c) == ContainerHasErrors(c) \/ Len(c.InvalidArgs) > 0

\* ConfigFilesMissing.HasErrors
ConfigHasErrors(c) == ContainerErrorCount(c) > 0

\* the arguments argparse does not recognise, as parse_known_args returns them
UnknownArgs == {<<>>, <<Str("--bad")>>, <<Str("extra")>>, <<Str("extra"), Str("--bad")>>}

\* the (flag, message) pairs of the property setters that raise ValueError,
\* in the order of sorted(derivedProperties)
FailedArgs ==
    {<<>>, <<Tuple("--t1", "x")>>, <<Tuple("--tpath", "y")>>, <<Tuple("ValueDate", "x")>>,
     <<Tuple("--t1", "x"), Tuple("--tpath", "y")>>,
     <<Tuple("--t1", "x"), Tuple("--tpath", "y"), Tuple("ValueDate", "x")>>}

\* the configuration files whose GetContents raises ConfigFilesMissing
FailedFiles ==
    {<<>>, <<NewConfigFilesMissing(1, "a", "p")>>,
     <<NewConfigFilesMissing(1, "a", "p"), NewConfigFilesMissing(1, "b", "p")>>}

\* for file in files: ... except ConfigFilesMissing as err: error.Merge(err)
RECURSIVE MergeAll(_, _)
MergeAll(error, errs) ==
    IF errs = <<>> THEN error ELSE MergeAll(ContainerMerge(error, Head(errs)), Tail(errs))

\* the aggregators plotter.Execute can leave in plotter.AllErrors
RECURSIVE AddEach(_, _)
AddEach(dict, exceptions) ==
    IF exceptions = <<>> THEN dict
    ELSE AddEach(AggregatorAdd(dict, Head(exceptions)), Tail(exceptions))

Executions ==
    {<<>>}
    \cup {<<e>> : e \in LogRecords(1)}
    \cup {<<NewContainer("MerlinCurvesMissing", 1, "a"), NewFailedToGeneratePDF(1, "p")>>,
          <<NewFailedToGeneratePDF(1, "p"), NewContainer("MerlinCurvesMissing", 1, "b"),
            NewContainer("MerlinCurvesMissing", 1, "a")>>}

\* one print(...) of main or of a method it calls
Out(kind, cls, n) == [kind |-> kind, cls |-> cls, n |-> n]

\* Fatal.HandleAndExit: the three prints; the method ends after them
HandleAndExitPrints(exception, granular) ==
    <<Out("MessageHeader", exception.cls, 0),
      IF granular THEN Out("Message(True)", exception.cls, MessageLines(exception))
      ELSE Out("Message(False)", exception.cls, 1),
      Out("Exiting application.", exception.cls, 0)>>

\* ExceptionAggregator.PrintExceptionScreen
PrintExceptionScreen(dict) ==
    IF ErrorCount(dict) > 0
    THEN <<Out("The following issues have occurred: ", "ExceptionAggregator", 0),
           Out("StdoutMessage", "ExceptionAggregator", ErrorCount(dict))>>
    ELSE <<>>

\* MerlinPlotter.PrintStartScreen
PrintStartScreen == <<Out("PrintStartScreen", "None", 0)>>

NoMainCall == [op |-> "None"]

InitMain ==
    /\ phase = "ParseArgs"
    /\ A = NewContainer("CommandLineErrors", 1, "")
    /\ B = NewException("None", 0)
    /\ agg = <<>>
    /\ other = <<>>
    /\ exc = "None"
    /\ cwd = <<"C:", "/", "u", "/", "dir">>
    /\ \/ fs = NoFiles /\ dirs = Folders(cwd)
       \/ /\ fs = Written(NoFiles, DefaultPath(cwd),
                          [lines |-> EarlierLines, bytes |-> HeaderBytes + 2 * LineBytes])
          /\ dirs = Folders(cwd) \cup {LogFolder(cwd)}
    /\ run = 1
    /\ last = NoMainCall
    /\ console = <<>>
    /\ IdleMessage
    /\ IdlePlots

\* cmdLineArgs.ParseArgs()
ParseArgs(unknown, failed) ==
    /\ phase = "ParseArgs"
    /\ A' = AddAll(SetInvalidArgs(A, unknown), failed)
    /\ IF CommandLineHasErrors(A')
       THEN exc' = "CommandLineErrors" /\ phase' = "except"
       ELSE exc' = "None" /\ phase' = "GetContents"
    /\ last' = [op |-> "ParseArgs"]
    /\ UNCHANGED <<plots, message, B, agg, other, cwd, fs, dirs, run, console>>

\* allConfigFiles.GetContents()
GetContents(folderMissing, failed) ==
    /\ phase = "GetContents"
    /\ A' = IF folderMissing
            THEN \* error.Add(<a ConfigFilesMissing object>)
                 ContainerAdd(NewConfigFilesMissing(1, "", ""), Other)
            ELSE MergeAll(NewConfigFilesMissing(1, "", ""), failed)
    /\ IF folderMissing \/ ConfigHasErrors(A')
       THEN exc' = "ConfigFilesMissing" /\ phase' = "except"
       ELSE exc' = "None" /\ phase' = "Execute"
    /\ last' = [op |-> "GetContents"]
    /\ UNCHANGED <<plots, message, B, agg, other, cwd, fs, dirs, run, console>>

\* plotter.PrintStartScreen(), plotter.Execute(), and `raise exceptAgg`
Execute(exceptions) ==
    /\ phase = "Execute"
    /\ agg' = AddEach(<<>>, exceptions)
    /\ IF HasErrors(agg')
       THEN exc' = "ExceptionAggregator" /\ phase' = "except"
       ELSE exc' = "None" /\ phase' = "PrintEndScreen"
    /\ console' = console \o PrintStartScreen
    /\ last' = [op |-> "Execute"]
    /\ UNCHANGED <<plots, message, A, B, other, cwd, fs, dirs, run>>

\* plotter.Execute() raising a NonFatal that is in no aggregator, or an Exception
ExecuteRaises(raised) ==
    /\ phase = "Execute"
    /\ exc' = raised
    /\ phase' = "except"
    /\ console' = console \o PrintStartScreen
    /\ last' = [op |-> "Execute"]
    /\ UNCHANGED <<plots, message, A, B, agg, other, cwd, fs, dirs, run>>

\* plotter.PrintEndScreen()
PrintEndScreen ==
    /\ phase = "PrintEndScreen"
    /\ console' = console \o <<Out("####", "None", 0),
                               Out("Finished executing the required steps.", "None", 0),
                               Out("####", "None", 0)>>
    /\ phase' = "finally"
    /\ last' = [op |-> "PrintEndScreen"]
    /\ UNCHANGED <<plots, message, A, B, exc, agg, other, cwd, fs, dirs, run>>

\* except Fatals.Fatal as err: err.HandleAndExit(True)
ExceptFatal ==
    /\ phase = "except"
    /\ exc \in FatalClasses
    /\ console' = console \o HandleAndExitPrints(A, TRUE)
    /\ exc' = "None"
    /\ phase' = "finally"
    /\ last' = [op |-> "HandleAndExit"]
    /\ UNCHANGED <<plots, message, A, B, agg, other, cwd, fs, dirs, run>>

\* except Aggregate.ExceptionAggregator as agg: PrintExceptionScreen, GenerateLogFile
ExceptAggregator ==
    /\ phase = "except"
    /\ exc = "ExceptionAggregator"
    /\ console' = console \o PrintExceptionScreen(agg)
    /\ \E init \in {LogFileInit(fs, dirs, cwd)},
          noLog \in BOOLEAN, fault \in Faults, fatalFirst \in BOOLEAN :
        /\ Reaches(agg, fs, dirs, init, noLog, fault)
        /\ \E out \in {LogOutcome(agg, fs, dirs, init, run, noLog, fault, fatalFirst)} :
            /\ fatalFirst \/ (out.wrote /\ \E i, j \in DOMAIN agg :
                                agg[i].cls \in FatalClasses /\ agg[j].cls \in NonFatalClasses)
            /\ agg' = out.agg
            /\ fs' = out.fs
            /\ dirs' = out.dirs
            /\ exc' = out.exc
    /\ phase' = "finally"
    /\ last' = [op |-> "GenerateLogFile"]
    /\ UNCHANGED <<plots, message, A, B, other, cwd, run>>

\* except NonFatals.NonFatal as nonFatal: print(nonFatal.Message(True))
ExceptNonFatal ==
    /\ phase = "except"
    /\ exc \in NonFatalClasses
    /\ console' = console \o <<Out("Message(True)", exc, 1)>>
    /\ exc' = "None"
    /\ phase' = "finally"
    /\ last' = [op |-> "Message"]
    /\ UNCHANGED <<plots, message, A, B, agg, other, cwd, fs, dirs, run>>

\* except Exception as err: two prints
ExceptException ==
    /\ phase = "except"
    /\ exc = "Exception"
    /\ console' = console \o <<Out("The following unhandled exception occurred:", exc, 0),
                               Out("err.message", exc, 1)>>
    /\ exc' = "None"
    /\ phase' = "finally"
    /\ last' = [op |-> "print"]
    /\ UNCHANGED <<plots, message, A, B, agg, other, cwd, fs, dirs, run>>

\* finally: os.system("pause"); main ends, with the exception still travelling if any
Finally ==
    /\ phase = "finally"
    /\ phase' = "end"
    /\ UNCHANGED <<plots, message, A, B, exc, agg, other, cwd, fs, dirs, run, last, console>>

NextMain ==
    \/ \E unknown \in UnknownArgs, failed \in FailedArgs : ParseArgs(unknown, failed)
    \/ \E folderMissing \in BOOLEAN, failed \in FailedFiles : GetContents(folderMissing, failed)
    \/ \E exceptions \in Executions : Execute(exceptions)
    \/ \E raised \in {"OutlookFailed", "Exception"} : ExecuteRaises(raised)
    \/ PrintEndScreen
    \/ ExceptFatal
    \/ ExceptAggregator
    \/ ExceptNonFatal
    \/ ExceptException
    \/ Finally

SpecMain == InitMain /\ [][NextMain]_vars

\* C18: a CommandLineErrors record reports HasErrors iff its container is
\* non-empty or its InvalidArgs list is non-empty (so with an empty container
\* and a non-empty InvalidArgs it reports true, with both empty false), and
\* ParseArgs raises the record exactly then.
C18_HasErrorsCountsInvalidArgs ==
    A.cls = "CommandLineErrors" =>
        /\ CommandLineHasErrors(A) <=> (A.Contents # <<>> \/ A.InvalidArgs # <<>>)
        /\ last.op = "ParseArgs" =>
              ((exc = "CommandLineErrors") <=> (A.Contents # <<>> \/ A.InvalidArgs # <<>>))

C18_Witness ==
    /\ last.op = "ParseArgs"
    /\ A.Contents = <<>>
    /\ Len(A.InvalidArgs) = 2
    /\ exc = "CommandLineErrors"

\* C19: HandleAndExit prints the banner and the message and then terminates
\* the process: control does not come back to the caller.
C19_HandleAndExitTerminates ==
    (last.op = "HandleAndExit") => (exc = "SystemExit" /\ phase # "finally")

---------------------------------------------------------------------------
(* SpecChunk: LogFile.__FormattedMessages on one message.  A message is the
   sequence of its characters; the rows are the Message columns of the lines
   the log file gets for it. *)

MaxPieces == 3

Tab == "\t"
Newline == "\n"

Run(n) == [i \in 1..n |-> "m"]

\* the parts messages are made of: text shorter than, as long as and longer
\* than the Message column, a tab, a line break
Pieces == {Run(1), Run(52), Run(105), Run(106), Run(262), <<Tab>>, <<Newline>>}

RECURSIVE MessagesOf(_)
MessagesOf(n) ==
    IF n = 0 THEN {<<>>}
    ELSE MessagesOf(n - 1) \cup {m \o p : m \in MessagesOf(n - 1), p \in Pieces}

Messages == MessagesOf(MaxPieces)

\* message.replace('\t', '')
RemoveTabs(s) == SelectSeq(s, LAMBDA ch : ch # Tab)

\* message.split('\n')
RECURSIVE Split(_)
Split(s) ==
    IF \A i \in DOMAIN s : s[i] # Newline THEN <<s>>
    ELSE LET i == CHOOSE k \in DOMAIN s : s[k] = Newline /\ \A j \in 1..(k - 1) : s[j] # Newline
         IN <<SubSeq(s, 1, i - 1)>> \o Split(SubSeq(s, i + 1, Len(s)))

\* s[from:to]
Slice(s, from, to) ==
    SubSeq(s, from + 1, IF to < Len(s) THEN to ELSE Len(s))

\* range(0, length, chunkSize)
Indices(length, chunkSize) ==
    [k \in 1..((length + chunkSize - 1) \div chunkSize) |-> (k - 1) * chunkSize]

RECURSIVE Extend(_, _)
Extend(output, lists) ==
    IF lists = <<>> THEN output ELSE Extend(output \o Head(lists), Tail(lists))

\* the lines, unsplit: what the chunker gives when it does not cut at chunkSize
MessageChunks_Unsplit(msg) == Split(RemoveTabs(msg))

\* LogFile.__MessageChunks
MessageChunks(msg) ==
    LET chunkSize == MessageBufferLength
        length == Len(msg)
        chunks == Split(RemoveTabs(msg))
        indices == Indices(length, chunkSize)
        Cut(chunk) ==
            [k \in DOMAIN indices |->
                Slice(chunk, indices[k],
                      IF indices[k] + chunkSize < length THEN indices[k] + chunkSize ELSE length)]
    IN Extend(<<>>, [c \in DOMAIN chunks |-> Cut(chunks[c])])

\* messageChunks = [message for message in messageChunks if message]
NonBlank(chunks) == SelectSeq(chunks, LAMBDA chunk : chunk # <<>>)

NoChunkCall == [op |-> "None", rows |-> <<>>]

InitChunk ==
    /\ IdleContainers
    /\ IdleAggregators
    /\ IdleFiles
    /\ IdleConsole
    /\ exc = "None"
    /\ message \in Messages
    /\ IdlePlots
    /\ last = NoChunkCall

\* LogFile.__FormattedMessages: one row for each non-blank chunk
FormatMessage ==
    /\ last.op = "None"
    /\ last' = [op |-> "FormattedMessages", rows |-> NonBlank(MessageChunks(message))]
    /\ UNCHANGED <<plots, message, A, B, exc, agg, other, cwd, fs, dirs, phase, run, console>>

NextChunk == FormatMessage

SpecChunk == InitChunk /\ [][NextChunk]_vars

\* the text of a message: its characters other than tabs and line breaks
Text(s) == SelectSeq(s, LAMBDA ch : ch # Tab /\ ch # Newline)

---------------------------------------------------------------------------
(* C21: type mismatches *)

\* the items of a list that Add stores: non-empty strings and pairs
WellShaped(list) ==
    SelectSeq(list, LAMBDA v : (v.tag = "str" /\ v.first # "") \/ v.tag = "tuple")

\* a call handed an entry that is neither a non-empty string nor a pair
IllShapedCall ==
    \/ last'.op = "Add" /\ last'.target = "A" /\ last'.value.tag = "other"
    \/ last'.op = "MergeList" /\ WellShaped(last'.items) # last'.items

\* a Merge or a constructor handed a container of another class
MismatchedCall ==
    \/ last'.op = "Merge" /\ last'.target = "A" /\ A.cls # B.cls
    \/ last'.op = "Construct" /\ last'.target # B.cls

C21_WitnessShape ==
    /\ last.op = "MergeList"
    /\ exc = "None"
    /\ Len(last.items) = 2
    /\ last.items[1] = Other
    /\ last.items[2] \in Range(A.Contents) \ Range(last.before.Contents)

---------------------------------------------------------------------------
(* C22: Add *)

\* strings in ascending order, pairs in ascending order of their Keys
Ascending(list) ==
    \A i, j \in DOMAIN list : i < j => StrRank(list[i].first) < StrRank(list[j].first)

\* the receiver of the last call, as it is now
Receiver == IF last.target = "A" THEN A ELSE B

\* Add leaves the container as it is for this entry
Skipped(c, value) ==
    \/ value = Str("")
    \/ value \in Range(c.Contents)
    \/ value.tag = "tuple" /\ \E e \in Range(c.Contents) : e.first = value.first

\* C22: Add(entry) leaves the container unchanged when the entry is an empty
\* string, a string already present or a pair whose Key is already present;
\* otherwise it inserts exactly that entry and keeps every existing entry; and
\* after every Add and Merge the entries are in ascending order, of the
\* strings or of the pairs' Keys.
C22_AddInsertsSorted ==
    /\ Ascending(A.Contents)
    /\ Ascending(B.Contents)
    /\ last.op = "Add" =>
          IF Skipped(last.before, last.value)
          THEN Receiver = last.before
          ELSE /\ Range(Receiver.Contents) = Range(last.before.Contents) \cup {last.value}
               /\ Len(Receiver.Contents) = Len(last.before.Contents) + 1
               /\ Receiver = [last.before EXCEPT !.Contents = Receiver.Contents]

\* an entry smaller than the stored one was added: it stands first
C22_Witness ==
    /\ last.op = "Add"
    /\ ~Skipped(last.before, last.value)
    /\ Len(Receiver.Contents) = 2
    /\ Receiver.Contents[1] = last.value

---------------------------------------------------------------------------
(* C23 *)

\* C23: an aggregator constructed from an aggregator, or assigned one as its
\* Contents, is built without an error and stores the same kinds with the same
\* records as the one passed, an empty one included.
C23_CopiesAggregator ==
    last.op \in {"Construct", "SetContents"} => (exc = "None" /\ agg = other)

---------------------------------------------------------------------------
(* SpecPlot: MerlinPlotter.GenerateAllPlotImages.  A plot is its title, its
   curve configurations, and what its surroundings do to GenerateImage: the
   discount factor files that exist, whether a file read or the PNG export
   fails. *)

MaxPlots == 2

\* CurveConfigs[curve]: PlotT1, and whether the T and the T-1 file exist
Curve(name, plotT1, found, foundT1) ==
    [name |-> name, PlotT1 |-> plotT1, found |-> found, foundT1 |-> foundT1]

CurveConfigs ==
    {<<>>}
    \cup {<<Curve("a", FALSE, f, TRUE)>> : f \in BOOLEAN}
    \cup {<<Curve("a", TRUE, f, g)>> : f \in BOOLEAN, g \in BOOLEAN}
    \cup {<<Curve("a", FALSE, f, TRUE), Curve("b", FALSE, g, TRUE)>> : f \in BOOLEAN, g \in BOOLEAN}

\* what goes wrong inside GenerateImage besides missing files: nothing, the
\* exporter raises, reading a discount factor file raises, a Fatal is raised
\* before the curves are looked at
PlotFaults == {"none", "export", "read", "fatal"}

PlotsTitled(title) ==
    {[PlotTitle |-> title, CurveConfigs |-> c, fault |-> f] : c \in CurveConfigs, f \in PlotFaults}

\* 'T-1 ' + curve
TMinusOneTitle(name) == IF name = "a" THEN "T-1 a" ELSE "T-1 b"

\* the while loop of one curve: the titles it puts into allCurves, the ones it
\* puts into __MissingCurves, and whether it reads a file
CurveTitles(c) == IF c.PlotT1 THEN <<c.name, TMinusOneTitle(c.name)>> ELSE <<c.name>>

CurveMissing(c) ==
    (IF c.found THEN <<>> ELSE <<c.name>>)
    \o (IF c.PlotT1 /\ ~c.foundT1 THEN <<TMinusOneTitle(c.name)>> ELSE <<>>)

CurveReads(c) == c.found \/ (c.PlotT1 /\ c.foundT1)

\* the for loop over CurveConfigs.keys(): it ends at the first curve whose
\* file read raises
RECURSIVE CurveLoop(_, _, _, _)
CurveLoop(curves, fault, allCurves, missing) ==
    IF curves = <<>> THEN [allCurves |-> allCurves, missing |-> missing, raised |-> FALSE]
    ELSE LET c == Head(curves)
         IN IF fault = "read" /\ CurveReads(c)
            THEN [allCurves |-> allCurves \o <<c.name>>,
                  missing |-> missing \o (IF c.found THEN <<>> ELSE <<c.name>>),
                  raised |-> TRUE]
            ELSE CurveLoop(Tail(curves), fault, allCurves \o CurveTitles(c),
                           missing \o CurveMissing(c))

\* FailedToGeneratePNGS(callingFunc, plotTitle, specific)
NewFailedToGeneratePNGS(time, plotTitle, specific) ==
    [NewContainer("FailedToGeneratePNGS", time, plotTitle) EXCEPT !.SpecificMessage = specific]

\* MerlinCurvesMissing(callingFunc, targetList = missing)
NewMerlinCurvesMissing(time, missing) ==
    ContainerAdd(AddAll(NewException("MerlinCurvesMissing", time),
                        [i \in DOMAIN missing |-> Str(missing[i])]),
                 Str(""))

\* ForwardRatePlot.GenerateImage: the exception it raises ("None": it returns)
\* and the missing curves it has detected by then
GenerateImage(plot) ==
    IF plot.CurveConfigs = <<>>
    THEN [raised |-> NewContainer("NoPlotsLoaded", 1, plot.PlotTitle), missing |-> <<>>]
    ELSE IF plot.fault = "fatal"
    THEN [raised |-> NewConfigFilesMissing(1, "a", "p"), missing |-> <<>>]
    ELSE LET loop == CurveLoop(plot.CurveConfigs, plot.fault, <<>>, <<>>)
         IN IF loop.raised
            THEN [raised |-> NewException("Exception", 1), missing |-> loop.missing]
            ELSE IF Len(loop.missing) = Len(loop.allCurves)
            THEN [raised |-> NewFailedToGeneratePNGS(1, plot.PlotTitle, "x"),
                  missing |-> loop.missing]
            ELSE IF plot.fault = "export"
            THEN [raised |-> NewFailedToGeneratePNGS(1, plot.PlotTitle, ErrMessage),
                  missing |-> loop.missing]
            ELSE IF loop.missing # <<>>
            THEN [raised |-> NewMerlinCurvesMissing(1, loop.missing), missing |-> loop.missing]
            ELSE [raised |-> NewException("None", 1), missing |-> loop.missing]

\* a loop that adds whatever is raised to the aggregator and goes on
OnRaised_KeepGoing(dict, raised) ==
    IF raised.cls \in FatalClasses \cup NonFatalClasses
    THEN [agg |-> AggregatorAdd(dict, raised), exc |-> "None", phase |-> "loop"]
    ELSE IF raised.cls = "None"
         THEN [agg |-> dict, exc |-> "None", phase |-> "loop"]
         ELSE [agg |-> dict, exc |-> raised.cls, phase |-> "raised"]

\* the try statement of the loop: except Fatal: raise; except NonFatal:
\* self.AllErrors.Add(nonfatal); any other exception leaves the method
OnRaised(dict, raised) ==
    IF raised.cls \in FatalClasses
    THEN [agg |-> dict, exc |-> raised.cls, phase |-> "raised"]
    ELSE IF raised.cls \in NonFatalClasses
         THEN [agg |-> AggregatorAdd(dict, raised), exc |-> "None", phase |-> "loop"]
         ELSE IF raised.cls = "None"
              THEN [agg |-> dict, exc |-> "None", phase |-> "loop"]
              ELSE [agg |-> dict, exc |-> raised.cls, phase |-> "raised"]

\* no plot attempted yet; index counts the plots attempted, kinds and missing
\* collect the classes raised and the missing curves detected so far
NoPlotCall == [op |-> "None", index |-> 0, kinds |-> {}, missing |-> {}]

InitPlot ==
    /\ IdleContainers
    /\ other = <<>>
    /\ cwd = <<>> /\ fs = <<>> /\ dirs = {} /\ run = 1
    /\ IdleConsole
    /\ IdleMessage
    /\ agg = <<>>
    /\ exc = "None"
    /\ phase = "loop"
    /\ \E n \in 1..MaxPlots :
          plots \in [1..n -> PlotsTitled("p") \cup PlotsTitled("q")]
    /\ \A i, j \in DOMAIN plots : i # j => plots[i].PlotTitle # plots[j].PlotTitle
    /\ last = NoPlotCall

\* one pass of `for plotName in self.__AllPlots.keys()`
GenerateNext ==
    /\ phase = "loop"
    /\ last.index < Len(plots)
    /\ \E out \in {GenerateImage(plots[last.index + 1])} :
       \E next \in {OnRaised(agg, out.raised)} :
          /\ agg' = next.agg
          /\ exc' = next.exc
          /\ phase' = next.phase
          /\ last' = [op |-> "GenerateImage", index |-> last.index + 1,
                      kinds |-> last.kinds \cup ({out.raised.cls} \ {"None"}),
                      missing |-> last.missing \cup Range(out.missing)]
    /\ UNCHANGED <<plots, message, A, B, other, cwd, fs, dirs, run, console>>

\* the loop has gone through every plot: self.PrintStep("Done", True)
LoopDone ==
    /\ phase = "loop"
    /\ last.index = Len(plots)
    /\ phase' = "done"
    /\ console' = console \o <<Out("Done", "None", 0)>>
    /\ UNCHANGED <<plots, message, A, B, exc, agg, other, cwd, fs, dirs, run, last>>

NextPlot == GenerateNext \/ LoopDone

SpecPlot == InitPlot /\ [][NextPlot]_vars

---------------------------------------------------------------------------
(* C24, C25 *)

\* the plot a step attempts, and what its GenerateImage raises
Attempts == phase = "loop" /\ last'.index = last.index + 1
RaisedNow == GenerateImage(plots[last.index + 1]).raised

\* C24: a NonFatal raised by a plot's GenerateImage is added to the aggregator
\* and the loop goes on to the remaining plots; a Fatal is raised again at
\* once, the aggregator is left alone and no further plot is attempted; and
\* when the loop ends without a Fatal, the aggregator holds a record of every
\* NonFatal kind raised during the loop.
C24_NonFatalContinuesFatalStops ==
    [][/\ (Attempts /\ RaisedNow.cls \in NonFatalClasses) =>
              /\ phase' = "loop"
              /\ exc' = "None"
              /\ HasKey(agg', RaisedNow.cls)
              /\ Keys(agg) \subseteq Keys(agg')
       /\ (Attempts /\ RaisedNow.cls \in FatalClasses) =>
              /\ phase' = "raised"
              /\ exc' = RaisedNow.cls
              /\ agg' = agg
       /\ phase = "raised" => last'.index = last.index
       /\ phase' = "done" =>
              /\ last'.index = Len(plots)
              /\ (last'.kinds \cap NonFatalClasses) \subseteq Keys(agg')]_vars

\* the first plot raised a NonFatal, the second was attempted and raised a
\* Fatal
C24_Witness ==
    /\ phase = "raised"
    /\ exc \in FatalClasses
    /\ last.index = 2
    /\ Len(agg) = 1

\* the loop ended after two plots that raised NonFatals of different kinds
C24_WitnessDone ==
    /\ phase = "done"
    /\ last.index = 2
    /\ Len(agg) = 2

\* the curves of the aggregator's MerlinCurvesMissing record
ReportedMissing ==
    IF HasKey(agg, "MerlinCurvesMissing")
    THEN {e.first : e \in Range(agg[IndexOf(agg, "MerlinCurvesMissing")].Contents)}
    ELSE {}

\* C25: at the end of the loop every curve a plot found missing is named in
\* the aggregator's MerlinCurvesMissing record, also when the GenerateImage
\* call that found it missing failed to generate its image.
C25_MissingCurvesReported ==
    phase = "done" => last.missing \subseteq ReportedMissing

---------------------------------------------------------------------------
(* C26 *)

\* C26: Print on a log file to which nothing was appended skips the write:
\* the file at its path is neither created nor overwritten.
C26_EmptyPrintSkipsWrite ==
    last.op = "Print" =>
        /\ ~last.wrote
        /\ last.old = NoFile => last.path \notin DOMAIN fs
        /\ last.old # NoFile => fs[last.path] = last.old

---------------------------------------------------------------------------
(* C27 *)

\* HasErrors of a container object, by its class
HasErrorsOf(c) ==
    IF c.cls = "CommandLineErrors" THEN CommandLineHasErrors(c)
    ELSE IF c.cls = "ConfigFilesMissing" THEN ConfigHasErrors(c)
    ELSE ContainerHasErrors(c)

\* C27: a container record reports HasErrors exactly when the count that
\* ErrorCount() returns, the one its concise message shows, is above zero.
C27_HasErrorsIffCounted ==
    A.cls \in ContainerClasses => (HasErrorsOf(A) <=> ContainerErrorCount(A) > 0)

---------------------------------------------------------------------------
(* C28 *)

\* C28: when B reports errors, A reports errors after A.Merge(B), and what
\* made B report them is in A: the Keys of its main entries, its unrecognised
\* arguments, its (name, path) pairs.
C28_MergeKeepsErrors ==
    [][(MergedIntoA /\ HasErrorsOf(B)) =>
          /\ HasErrorsOf(A')
          /\ FirstsOf(B.Contents) \subseteq FirstsOf(A'.Contents)
          /\ Range(B.InvalidArgs) \subseteq Range(A'.InvalidArgs)
          /\ Range(B.MissingConfigs) \subseteq Range(A'.MissingConfigs)]_vars

---------------------------------------------------------------------------
(* C29 *)

\* C29: a Fatal container record that ParseArgs or GetContents raises reports
\* HasErrors and holds at least one entry that describes the failure.
C29_RaisedFatalIsNonEmpty ==
    (phase = "except" /\ exc \in FatalClasses) =>
        /\ HasErrorsOf(A)
        /\ Len(A.Contents) + Len(A.InvalidArgs) + Len(A.MissingConfigs) > 0

---------------------------------------------------------------------------
(* C30 *)

\* C30: the path that log-path resolution returns for a LogFile either does
\* not exist yet or names an existing file that does not exceed the size
\* threshold (the resolution itself ends for every file system drawn).
C30_ResolvedPathFits ==
    (Called /\ last.io # {}) =>
        \/ last.old = NoFile
        \/ last.old.bytes <= DefaultSize * Million

====
